---- MODULE Spec2Model ----
(***************************************************************************)
(* Idempotency key derivation for payment transactions                     *)
(* (src/idempotency_key.py): PaymentIdentikit construction and validation, *)
(* generate_timecode, generate_idempotency_key and the one-shot            *)
(* generate_payment_idempotency_key.                                       *)
(*                                                                         *)
(* Representation.  A Python str is a sequence of one-character strings.   *)
(* An Optional value is <<>> (None) or <<v>>.  A float amount is a record  *)
(* [nan, milli]: NaN, or the float nearest to milli/1000.  A hex digest is *)
(* the record [alg, data]: the hash is taken as injective, and two         *)
(* algorithms never give the same digest.  The key "<hex>.<hex>" is the    *)
(* record of its two halves ('.' is no hex digit, so the split is unique). *)
(***************************************************************************)
EXTENDS Integers, Sequences, FiniteSets, TLC

VARIABLES
    strftime_pads_year, \* the C library's %Y: TRUE zero-pads to 4 digits, FALSE (glibc) does not
    kit,                \* kit[s]: the PaymentIdentikit object s, or NoObject
    call,               \* call[s]: the constructor call made for s (arguments, error raised)
    log,                \* log[s]: every result the methods of s have returned
    frame               \* frame[th]: the activation (position, arguments, locals) of caller th

vars == <<strftime_pads_year, kit, call, log, frame>>

---------------------------------------------------------------------------
(* Bounds of the model *)

\* results recorded per behaviour
MaxResults == 2
\* concurrent callers
NumThreads == 2

Slots == 1..2
Threads == 1..NumThreads

---------------------------------------------------------------------------
(* str operations *)

None == <<>>
Some(v) == <<v>>

Whitespace == {" "}

UpperChar(c) ==
    CASE c = "a" -> "A"
      [] c = "b" -> "B"
      [] c = "c" -> "C"
      [] OTHER -> c

\* str.upper()
Upper(s) == [i \in 1..Len(s) |-> UpperChar(s[i])]

RECURSIVE LStrip(_)
LStrip(s) == IF s # <<>> /\ Head(s) \in Whitespace THEN LStrip(Tail(s)) ELSE s

RECURSIVE RStrip(_)
RStrip(s) ==
    IF s # <<>> /\ s[Len(s)] \in Whitespace THEN RStrip(SubSeq(s, 1, Len(s) - 1)) ELSE s

\* str.strip()
Strip(s) == RStrip(LStrip(s))

\* sep.join(parts)
RECURSIVE Join(_, _)
Join(sep, parts) ==
    IF parts = <<>> THEN <<>>
    ELSE IF Len(parts) = 1 THEN parts[1]
    ELSE parts[1] \o sep \o Join(sep, Tail(parts))

DigitChar(d) == <<"0", "1", "2", "3", "4", "5", "6", "7", "8", "9">>[d + 1]

\* str(n) for n >= 0
RECURSIVE Digits(_)
Digits(n) == IF n < 10 THEN <<DigitChar(n)>> ELSE Digits(n \div 10) \o <<DigitChar(n % 10)>>

\* f"{n:0Wd}" for n >= 0: zero-padded to at least width characters
RECURSIVE ZeroPad(_, _)
ZeroPad(s, width) == IF Len(s) >= width THEN s ELSE ZeroPad(<<"0">> \o s, width)

---------------------------------------------------------------------------
(* float formatting: f"{x:.2f}" *)

NaN == [nan |-> TRUE, milli |-> 0]
Milli(n) == [nan |-> FALSE, milli |-> n]

RECURSIVE Pow2Mod1000(_)
Pow2Mod1000(k) == IF k = 0 THEN 1 ELSE (2 * Pow2Mod1000(k - 1)) % 1000

\* the k with 2^52 <= (n/1000) * 2^k < 2^53: the scale of the double's mantissa
RECURSIVE ScaleUp(_, _)
ScaleUp(n, k) == IF n >= 1000 THEN k ELSE ScaleUp(2 * n, k + 1)
RECURSIVE ScaleDown(_, _)
ScaleDown(n, k) == IF n < 2000 THEN k ELSE ScaleDown(n \div 2, k - 1)
MantissaScale(n) == IF n < 1000 THEN ScaleUp(n, 52) ELSE ScaleDown(n, 52)

\* Where the double nearest to n/1000 lies: -1 below n/1000, 0 on it, 1 above.
\* The mantissa is round(n * 2^k / 1000); the remainder of n * 2^k by 1000
\* tells which way that rounding went.
FloatError(n) ==
    LET r == ((n % 1000) * Pow2Mod1000(MantissaScale(n))) % 1000
    IN  IF r = 0 THEN 0 ELSE IF r < 500 THEN -1 ELSE 1

\* The double nearest to n/1000 (n > 0) rounded to hundredths as the correctly
\* rounded "%.2f" does: to nearest, an exact tie to the even digit.
RoundHundredths(n) ==
    LET q == n \div 10
        d == n % 10
    IN  IF d < 5 THEN q
        ELSE IF d > 5 THEN q + 1
        ELSE IF FloatError(n) < 0 THEN q
        ELSE IF FloatError(n) > 0 THEN q + 1
        ELSE IF q % 2 = 0 THEN q ELSE q + 1

\* f"{transaction_amount:.2f}"
FormatAmount(a) ==
    IF a.nan THEN <<"n", "a", "n">>
    ELSE LET h == RoundHundredths(a.milli)
         IN  Digits(h \div 100) \o <<".">> \o ZeroPad(Digits(h % 100), 2)

\* float comparison x <= 0: every comparison with NaN is false
FloatLeZero(a) == ~a.nan /\ a.milli <= 0

---------------------------------------------------------------------------
(* datetime.strftime *)

\* datetime.strftime(fmt) for the directives %Y %m %d %H; any other character
\* of fmt is copied.  %Y is the C library's: 4 digits zero-padded, or (glibc)
\* the year's own digits.
RECURSIVE Strftime(_, _, _)
Strftime(fmt, t, pads) ==
    IF fmt = <<>> THEN <<>>
    ELSE IF Head(fmt) = "%" /\ Len(fmt) >= 2
    THEN (CASE fmt[2] = "Y" -> IF pads THEN ZeroPad(Digits(t.year), 4) ELSE Digits(t.year)
            [] fmt[2] = "m" -> ZeroPad(Digits(t.month), 2)
            [] fmt[2] = "d" -> ZeroPad(Digits(t.day), 2)
            [] fmt[2] = "H" -> ZeroPad(Digits(t.hour), 2)
            [] OTHER -> <<fmt[1], fmt[2]>>)
         \o Strftime(SubSeq(fmt, 3, Len(fmt)), t, pads)
    ELSE <<Head(fmt)>> \o Strftime(Tail(fmt), t, pads)

---------------------------------------------------------------------------
(* hashlib *)

\* names hashlib.new() accepts and whose hexdigest() takes no argument
FixedDigestAlgorithms == {"sha256", "md5"}
\* names hashlib.new() accepts, whose hexdigest(length) requires a length
XofAlgorithms == {"shake_128"}
\* hashlib.new(name) raises ValueError("unsupported hash type") for any other name
HashlibAlgorithms == FixedDigestAlgorithms \cup XofAlgorithms

NoDigest == [alg |-> "", data |-> <<>>]
\* h = hashlib.new(alg); h.update(data.encode()); h.hexdigest()
Hexdigest(alg, data) == [alg |-> alg, data |-> data]

NoKey == [receiver_hash |-> NoDigest, sender_hash |-> NoDigest]

ValueErrorUnsupported == "ValueError: unsupported hash type"
TypeErrorLength == "TypeError: hexdigest() missing required argument 'length'"

---------------------------------------------------------------------------
(* ClientType and PaymentIdentikit *)

ClientType == {"WEB_APP", "MOBILE_APP", "WEB_API", "DESKTOP_APP", "OTHER"}

\* client_type.value
ClientTypeValue(ct) ==
    CASE ct = "WEB_APP" -> <<"w", "e", "b", "_", "a", "p", "p">>
      [] ct = "MOBILE_APP" -> <<"m", "o", "b", "i", "l", "e", "_", "a", "p", "p">>
      [] ct = "WEB_API" -> <<"w", "e", "b", "_", "a", "p", "i">>
      [] ct = "DESKTOP_APP" -> <<"d", "e", "s", "k", "t", "o", "p", "_", "a", "p", "p">>
      [] OTHER -> <<"o", "t", "h", "e", "r">>

NoObject == [class |-> "NoneType"]
NoCall == [by |-> ""]

\* `value or ""` for an Optional[str]
OrEmpty(opt) == IF opt = None THEN <<>> ELSE opt[1]

\* a bank code stripped and not upper-cased
NormalizeBankCodeStripOnly(s) == Strip(s)
\* a bank code as __init__ stores it: code.upper().strip()
NormalizeBankCode(s) == Strip(Upper(s))

\* PaymentIdentikit.__init__: the assignments to self, before _validate
PaymentIdentikit(args) ==
    [class |-> "PaymentIdentikit",
     receiver_bank_code |-> NormalizeBankCode(args.receiver_bank_code),
     receiver_account_number |-> Strip(args.receiver_account_number),
     sender_bank_code |-> NormalizeBankCode(args.sender_bank_code),
     sender_account_number |-> Strip(args.sender_account_number),
     transaction_amount |-> args.transaction_amount,
     client_type |-> args.client_type,
     client_location |-> Strip(args.client_location),
     internal_transaction_narration |-> OrEmpty(args.internal_transaction_narration),
     client_id |-> OrEmpty(args.client_id),
     timecode_interval_minutes |-> args.timecode_interval_minutes]

NoError == ""

\* PaymentIdentikit._validate: the message of the ValueError it raises, or NoError
Validate(self) ==
    IF self.receiver_bank_code = <<>> THEN "ValueError: receiver_bank_code cannot be empty"
    ELSE IF self.receiver_account_number = <<>>
    THEN "ValueError: receiver_account_number cannot be empty"
    ELSE IF self.sender_bank_code = <<>> THEN "ValueError: sender_bank_code cannot be empty"
    ELSE IF self.sender_account_number = <<>>
    THEN "ValueError: sender_account_number cannot be empty"
    ELSE IF self.client_location = <<>> THEN "ValueError: client_location cannot be empty"
    ELSE IF FloatLeZero(self.transaction_amount)
    THEN "ValueError: transaction_amount must be greater than 0"
    ELSE NoError

---------------------------------------------------------------------------
(* generate_timecode *)

\* the minute itself, not rounded down to the interval
RoundedMinutesExact(minutes, interval_minutes) == minutes
\* rounded_minutes = (minutes // interval_minutes) * interval_minutes
RoundedMinutes(minutes, interval_minutes) ==
    (minutes \div interval_minutes) * interval_minutes

\* f"%Y%m%d%H{rounded_minutes:02d}"
TimecodeFormat(rounded_minutes) ==
    <<"%", "Y", "%", "m", "%", "d", "%", "H">> \o ZeroPad(Digits(rounded_minutes), 2)

\* generate_timecode for the instant t (the argument, or the clock's reading)
Timecode(self, t, pads) ==
    Strftime(TimecodeFormat(RoundedMinutes(t.minute, self.timecode_interval_minutes)), t, pads)

---------------------------------------------------------------------------
(* generate_idempotency_key *)

Bar == <<"|">>

\* a receiver string that also holds the timecode
ReceiverStringWithTimecode(self, timecode) ==
    Join(Bar, <<self.receiver_bank_code, self.receiver_account_number, timecode>>)
\* receiver_string = "|".join([RBC, RAN])
ReceiverString(self, timecode) ==
    Join(Bar, <<self.receiver_bank_code, self.receiver_account_number>>)

\* a sender string without the amount
SenderStringNoAmount(self, timecode) ==
    Join(Bar, <<self.sender_bank_code, self.sender_account_number, timecode,
                self.internal_transaction_narration, ClientTypeValue(self.client_type),
                self.client_id, self.client_location>>)
\* sender_string = "|".join([SBC, SAN, TTC, TAMT, ITN, CTYPE, CID, CLOC])
SenderString(self, timecode) ==
    Join(Bar, <<self.sender_bank_code, self.sender_account_number, timecode,
                FormatAmount(self.transaction_amount),
                self.internal_transaction_narration, ClientTypeValue(self.client_type),
                self.client_id, self.client_location>>)

\* What one method call gave: its arguments, the timecode it computed, the key
\* it returned (NoKey when it raised), the exception it raised (NoError when it
\* returned) and the strings it had fed to hash objects by then.
Result(op, transaction_time, hash_algorithm, timecode, key, raised, hashed) ==
    [op |-> op, transaction_time |-> transaction_time, hash_algorithm |-> hash_algorithm,
     timecode |-> timecode, key |-> key, raised |-> raised, hashed |-> hashed]

\* lines 173-184: the two hash objects, in order, and the key
HashAndJoin(op, transaction_time, hash_algorithm, timecode, receiver_string, sender_string) ==
    IF hash_algorithm \notin HashlibAlgorithms
    THEN \* hashlib.new raises at line 173
         Result(op, transaction_time, hash_algorithm, timecode, NoKey,
                ValueErrorUnsupported, <<>>)
    ELSE IF hash_algorithm \in XofAlgorithms
    THEN \* line 174 has updated the receiver's hash object; hexdigest() raises at line 175
         Result(op, transaction_time, hash_algorithm, timecode, NoKey,
                TypeErrorLength, <<receiver_string>>)
    ELSE Result(op, transaction_time, hash_algorithm, timecode,
                [receiver_hash |-> Hexdigest(hash_algorithm, receiver_string),
                 sender_hash |-> Hexdigest(hash_algorithm, sender_string)],
                NoError, <<receiver_string, sender_string>>)

\* self.generate_timecode(transaction_time), the clock reading `now`
TimecodeResult(self, transaction_time, now, pads) ==
    LET t == IF transaction_time = None THEN now ELSE transaction_time[1]
    IN  Result("generate_timecode", transaction_time, "", Timecode(self, t, pads),
               NoKey, NoError, <<>>)

\* self.generate_idempotency_key(transaction_time, hash_algorithm)
KeyResult(self, transaction_time, hash_algorithm, now, pads) ==
    LET t == IF transaction_time = None THEN now ELSE transaction_time[1]
        timecode == Timecode(self, t, pads)
    IN  HashAndJoin("generate_idempotency_key", transaction_time, hash_algorithm, timecode,
                    ReceiverString(self, timecode), SenderString(self, timecode))

---------------------------------------------------------------------------
(* The inputs explored *)

Instant(y, mo, d, h, mi) == [year |-> y, month |-> mo, day |-> d, hour |-> h, minute |-> mi]

T1400 == Instant(2024, 1, 15, 14, 0)
T1414 == Instant(2024, 1, 15, 14, 14)
T1415 == Instant(2024, 1, 15, 14, 15)
T1500 == Instant(2024, 1, 15, 15, 0)
TY999 == Instant(999, 1, 15, 14, 0)

\* the readings of datetime.utcnow()
ClockReadings == {T1400, T1415}

BaseArgs ==
    [receiver_bank_code |-> <<"A">>,
     receiver_account_number |-> <<"B">>,
     sender_bank_code |-> <<"A">>,
     sender_account_number |-> <<"B">>,
     transaction_amount |-> Milli(1004),
     client_type |-> "WEB_APP",
     client_location |-> <<"C">>,
     internal_transaction_narration |-> None,
     client_id |-> None,
     timecode_interval_minutes |-> 15]

\* BaseArgs with one argument changed
Variants(field, values) == {[BaseArgs EXCEPT ![field] = v] : v \in values}

\* argument lists that differ from BaseArgs in one argument, in every way the
\* normalization, the delimiter and the amount format can tell apart
ValidArgs ==
    {BaseArgs}
    \cup Variants("receiver_bank_code", {<<" ", "a", " ">>, <<"B">>, <<"A", "|", "B">>})
    \cup Variants("receiver_account_number", {<<"b">>, <<"B", " ">>, <<"B", "|", "B">>})
    \cup Variants("sender_bank_code", {<<"a">>, <<"B">>, <<"A", "|", "B">>})
    \cup Variants("sender_account_number", {<<"b">>, <<"B", "|", "B">>})
    \cup Variants("transaction_amount", {Milli(1001), Milli(1006), Milli(2000)})
    \cup Variants("client_type", {"MOBILE_APP"})
    \cup Variants("client_location", {<<" ", "C">>, <<"c">>})
    \cup Variants("internal_transaction_narration", {Some(<<>>), Some(<<"C">>)})
    \cup Variants("client_id", {Some(<<"C">>)})
    \cup Variants("timecode_interval_minutes", {7})

RequiredFields ==
    {"receiver_bank_code", "receiver_account_number", "sender_bank_code",
     "sender_account_number", "client_location"}

\* argument lists at the validation boundary
BoundaryArgs ==
    {BaseArgs}
    \cup UNION {Variants(f, {<<>>, <<" ">>, <<" ", " ">>}) : f \in RequiredFields}
    \cup Variants("transaction_amount", {Milli(0), Milli(-1000), Milli(10), Milli(1), NaN})
    \cup Variants("timecode_interval_minutes", {7, 59})
    \cup {[BaseArgs EXCEPT !.receiver_account_number = <<>>, !.transaction_amount = Milli(0)]}

---------------------------------------------------------------------------
(* State *)

Idle ==
    [pc |-> "idle", op |-> "", transaction_time |-> None, hash_algorithm |-> "",
     rounded_minutes |-> 0, timecode |-> <<>>, receiver_string |-> <<>>,
     sender_string |-> <<>>, result |-> <<>>]

Init ==
    /\ strftime_pads_year \in BOOLEAN
    /\ kit = [s \in Slots |-> NoObject]
    /\ call = [s \in Slots |-> NoCall]
    /\ log = [s \in Slots |-> {}]
    /\ frame = [th \in Threads |-> Idle]

\* the caller holds the object s
Constructed(s) == kit[s] # NoObject /\ call[s].by = "PaymentIdentikit"

\* results recorded so far
Recorded == Cardinality(log[1]) + Cardinality(log[2])

---------------------------------------------------------------------------
(* Sequential use: one action per call *)

\* s = PaymentIdentikit(**args): the object exists only if _validate returns
Construct(s, args) ==
    /\ call[s] = NoCall
    /\ LET self == PaymentIdentikit(args)
       IN  /\ call' = [call EXCEPT ![s] =
                          [by |-> "PaymentIdentikit", args |-> args, raised |-> Validate(self)]]
           /\ kit' = [kit EXCEPT ![s] = IF Validate(self) = NoError THEN self ELSE NoObject]
    /\ UNCHANGED <<strftime_pads_year, log, frame>>

\* s.generate_timecode(transaction_time)
GenerateTimecode(s, transaction_time) ==
    /\ Constructed(s)
    /\ Recorded < MaxResults
    /\ \E now \in (IF transaction_time = None THEN ClockReadings ELSE {T1400}) :
          log' = [log EXCEPT ![s] =
                     @ \cup {TimecodeResult(kit[s], transaction_time, now, strftime_pads_year)}]
    /\ UNCHANGED <<strftime_pads_year, kit, call, frame>>

\* s.generate_idempotency_key(transaction_time, hash_algorithm)
GenerateIdempotencyKey(s, transaction_time, hash_algorithm) ==
    /\ Constructed(s)
    /\ Recorded < MaxResults
    /\ \E now \in (IF transaction_time = None THEN ClockReadings ELSE {T1400}) :
          log' = [log EXCEPT ![s] =
                     @ \cup {KeyResult(kit[s], transaction_time, hash_algorithm, now,
                                       strftime_pads_year)}]
    /\ UNCHANGED <<strftime_pads_year, kit, call, frame>>

\* generate_payment_idempotency_key(**args, transaction_time, hash_algorithm):
\* the identikit it builds is s; a ValueError of the constructor propagates
GeneratePaymentIdempotencyKey(s, args, transaction_time, hash_algorithm) ==
    /\ call[s] = NoCall
    /\ Recorded < MaxResults
    /\ LET identikit == PaymentIdentikit(args)
       IN  /\ call' = [call EXCEPT ![s] =
                          [by |-> "generate_payment_idempotency_key", args |-> args,
                           raised |-> Validate(identikit)]]
           /\ kit' = [kit EXCEPT ![s] =
                         IF Validate(identikit) = NoError THEN identikit ELSE NoObject]
           /\ \E now \in (IF transaction_time = None THEN ClockReadings ELSE {T1400}) :
                 log' = [log EXCEPT ![s] =
                            IF Validate(identikit) = NoError
                            THEN {KeyResult(identikit, transaction_time, hash_algorithm, now,
                                            strftime_pads_year)}
                            ELSE {}]
    /\ UNCHANGED <<strftime_pads_year, frame>>

\* One object and the one-shot function, over the validation boundary, every
\* kind of algorithm name and instants in the same band, the next band, the
\* next hour and a three-digit year
SeqInstants == {Some(T1400), Some(T1414), Some(T1415), Some(T1500), Some(TY999), None}
SeqAlgorithms == {"sha256", "md5", "shake_128", "sha-256"}
OneShotInstants == {Some(T1400)}

Next ==
    \/ \E args \in BoundaryArgs : Construct(1, args)
    \/ \E t \in SeqInstants : GenerateTimecode(1, t)
    \/ \E t \in SeqInstants, alg \in SeqAlgorithms : GenerateIdempotencyKey(1, t, alg)
    \/ \E args \in BoundaryArgs, t \in OneShotInstants, alg \in SeqAlgorithms :
          GeneratePaymentIdempotencyKey(1, args, t, alg)

Spec == Init /\ [][Next]_vars

\* Two objects, over the arguments that differ in one field
PairInstants == {Some(T1400), Some(T1415)}
PairAlgorithms == {"sha256", "md5"}

NextPair ==
    \/ \E s \in Slots, args \in ValidArgs : Construct(s, args)
    \/ \E s \in Slots, t \in PairInstants, alg \in PairAlgorithms :
          GenerateIdempotencyKey(s, t, alg)

SpecPair == Init /\ [][NextPair]_vars

---------------------------------------------------------------------------
(* Vocabulary of the properties *)

KeyOp == "generate_idempotency_key"
TimecodeOp == "generate_timecode"

\* the calls of s that returned a key
Keys(s) == {e \in log[s] : e.op = KeyOp /\ e.raised = NoError}

\* the calls of s.generate_idempotency_key with an explicit instant
KeyCalls(s) == {e \in log[s] : e.op = KeyOp /\ e.transaction_time # None}

\* the start of the band [k*interval, (k+1)*interval) that holds minute
BandStart(minute, interval) == CHOOSE b \in 0..59 :
    \E k \in 0..59 : b = k * interval /\ b <= minute /\ minute < b + interval

SameHour(t1, t2) ==
    /\ t1.year = t2.year
    /\ t1.month = t2.month
    /\ t1.day = t2.day
    /\ t1.hour = t2.hour

SameBucket(t1, t2, interval) ==
    SameHour(t1, t2) /\ BandStart(t1.minute, interval) = BandStart(t2.minute, interval)

\* s contains a character that is not whitespace
NonBlank(s) == \E i \in 1..Len(s) : s[i] \notin Whitespace

---------------------------------------------------------------------------
(* C1: determinism *)

\* C1: on one object, any two generate_idempotency_key calls with the same
\* algorithm and instants in the same timecode bucket (in particular the same
\* instant) end the same way: the same key, whatever was called before.
C1_Determinism ==
    \A s \in Slots : \A e1, e2 \in KeyCalls(s) :
        (/\ e1.hash_algorithm = e2.hash_algorithm
         /\ SameBucket(e1.transaction_time[1], e2.transaction_time[1],
                       kit[s].timecode_interval_minutes))
        => (e1.key = e2.key /\ e1.raised = e2.raised)

\* two keys returned for different instants of one bucket
C1_Witness ==
    \E e1, e2 \in Keys(1) :
        /\ e1.transaction_time = Some(T1400)
        /\ e2.transaction_time = Some(T1414)
        /\ e1.hash_algorithm = e2.hash_algorithm
        /\ kit[1].timecode_interval_minutes = 15

---------------------------------------------------------------------------
(* C2: the timecode *)

\* YYYYMMDDHH and the band start, each zero-padded: 12 characters
ExpectedTimecode(t, interval) ==
    ZeroPad(Digits(t.year), 4) \o ZeroPad(Digits(t.month), 2) \o ZeroPad(Digits(t.day), 2)
    \o ZeroPad(Digits(t.hour), 2) \o ZeroPad(Digits(BandStart(t.minute, interval)), 2)

TimecodeCalls(s) == {e \in log[s] : e.op = TimecodeOp /\ e.transaction_time # None}

\* C2: for every instant and interval in 1..59 generate_timecode returns the
\* 12-character YYYYMMDDHH + band start, so two instants get the same timecode
\* exactly when they agree on year, month, day, hour and band.
C2_TimecodeFormat ==
    \A s \in Slots :
        /\ \A e \in TimecodeCalls(s) :
              /\ Len(e.timecode) = 12
              /\ e.timecode = ExpectedTimecode(e.transaction_time[1],
                                               kit[s].timecode_interval_minutes)
        /\ \A e1, e2 \in TimecodeCalls(s) :
              (e1.timecode = e2.timecode)
              <=> SameBucket(e1.transaction_time[1], e2.transaction_time[1],
                             kit[s].timecode_interval_minutes)

\* What does hold: the claim for years of four digits, and on a C library
\* whose %Y pads, for every year
TimecodeFormatFourDigitYears ==
    \A s \in Slots :
        LET calls == {e \in TimecodeCalls(s) :
                        strftime_pads_year \/ e.transaction_time[1].year >= 1000}
        IN  /\ \A e \in calls :
                  e.timecode = ExpectedTimecode(e.transaction_time[1],
                                                kit[s].timecode_interval_minutes)
            /\ \A e1, e2 \in calls :
                  (e1.timecode = e2.timecode)
                  <=> SameBucket(e1.transaction_time[1], e2.transaction_time[1],
                                 kit[s].timecode_interval_minutes)

---------------------------------------------------------------------------
(* C6: construction *)

\* x > 0 for a float: false for NaN
Positive(a) == ~a.nan /\ a.milli > 0

ArgsValid(args) ==
    /\ \A f \in RequiredFields : NonBlank(args[f])
    /\ Positive(args.transaction_amount)

\* the messages that name a field of args that is at fault
OffendingMessages(args) ==
    {"ValueError: " \o f \o " cannot be empty" : f \in {g \in RequiredFields : ~NonBlank(args[g])}}
    \cup (IF Positive(args.transaction_amount) THEN {}
          ELSE {"ValueError: transaction_amount must be greater than 0"})

\* C6: construction succeeds exactly when the five required fields are
\* non-empty after normalization and the amount is > 0; otherwise it raises an
\* error naming an offending field and there is no object to derive a key from.
C6_ConstructionValid ==
    \A s \in Slots :
        call[s] # NoCall =>
            /\ (kit[s] # NoObject) <=> ArgsValid(call[s].args)
            /\ ArgsValid(call[s].args) => call[s].raised = NoError
            /\ ~ArgsValid(call[s].args) =>
                  /\ call[s].raised \in OffendingMessages(call[s].args)
                  /\ log[s] = {}

\* What does hold: the claim for every amount that is a number
ConstructionValidFinite ==
    \A s \in Slots :
        (call[s] # NoCall /\ ~call[s].args.transaction_amount.nan) =>
            /\ (kit[s] # NoObject) <=> ArgsValid(call[s].args)
            /\ ~ArgsValid(call[s].args) =>
                  /\ call[s].raised \in OffendingMessages(call[s].args)
                  /\ log[s] = {}

---------------------------------------------------------------------------
(* C7: unsupported algorithms *)

\* C7: a call with an algorithm name that yields no digest fails with the
\* unsupported-algorithm error before anything was fed to a hash object,
\* returns no key, and leaves the object as constructed.
C7_UnsupportedAlgorithm ==
    \A s \in Slots : \A e \in log[s] :
        (e.op = KeyOp /\ e.hash_algorithm \notin FixedDigestAlgorithms) =>
            /\ e.raised = ValueErrorUnsupported
            /\ e.hashed = <<>>
            /\ e.key = NoKey
            /\ kit[s] = PaymentIdentikit(call[s].args)

\* What does hold: the claim for the names hashlib does not know
UnknownAlgorithmFailsFirst ==
    \A s \in Slots : \A e \in log[s] :
        (e.op = KeyOp /\ e.hash_algorithm \notin HashlibAlgorithms) =>
            /\ e.raised = ValueErrorUnsupported
            /\ e.hashed = <<>>
            /\ e.key = NoKey
            /\ kit[s] = PaymentIdentikit(call[s].args)

---------------------------------------------------------------------------
(* Two transactions: vocabulary *)

\* the fields of the object that enter the receiver string and the sender string
ReceiverFields == {"receiver_bank_code", "receiver_account_number"}
SenderFields ==
    {"sender_bank_code", "sender_account_number", "transaction_amount",
     "internal_transaction_narration", "client_type", "client_id", "client_location"}
ComponentFields == ReceiverFields \cup SenderFields

\* the component fields in which two objects differ
Differing(k1, k2) == {f \in ComponentFields : k1[f] # k2[f]}

\* a key returned by object 1 and a key returned by object 2, same algorithm
KeyPairs ==
    {p \in Keys(1) \X Keys(2) : p[1].hash_algorithm = p[2].hash_algorithm}

\* ... for the same instant, the objects having the same interval
KeyPairsSameInstant ==
    {p \in KeyPairs :
        /\ p[1].transaction_time = p[2].transaction_time
        /\ kit[1].timecode_interval_minutes = kit[2].timecode_interval_minutes}

Parties ==
    {"receiver_bank_code", "receiver_account_number", "sender_bank_code",
     "sender_account_number"}

---------------------------------------------------------------------------
(* C3: distinct transactions *)

\* C3: two transactions that differ in a party, in the amount or in the time
\* bucket hash different (receiver string, sender string) pairs and so get
\* different keys, also when a field holds the delimiter.
C3_DistinctKeys ==
    \A p \in KeyPairs :
        (\/ \E f \in Parties : kit[1][f] # kit[2][f]
         \/ kit[1].transaction_amount # kit[2].transaction_amount
         \/ p[1].timecode # p[2].timecode)
        => (p[1].hashed # p[2].hashed /\ p[1].key # p[2].key)

\* C3, its first case: two transactions that differ in a party hash different
\* (receiver string, sender string) pairs and get different keys, also when a
\* field holds the delimiter.
C3_DistinctParties ==
    \A p \in KeyPairs :
        (\E f \in Parties : kit[1][f] # kit[2][f])
        => (p[1].hashed # p[2].hashed /\ p[1].key # p[2].key)

---------------------------------------------------------------------------
(* C4: field sensitivity *)

\* C4 as claimed: for a fixed instant, two objects that differ in exactly one
\* component field hash different strings and get different keys.
C4_FieldSensitivity ==
    \A p \in KeyPairsSameInstant :
        Cardinality(Differing(kit[1], kit[2])) = 1
        => (p[1].hashed # p[2].hashed /\ p[1].key # p[2].key)

\* two amounts that "%.2f" tells apart
AmountsFormatApart(a1, a2) == FormatAmount(a1) # FormatAmount(a2)

\* C4 amended: ... that differ in exactly one component field, the amount
\* counting only when the two amounts format differently to 2 decimals, hash
\* different strings and get different keys.
C4_FieldSensitivityAmended ==
    \A p \in KeyPairsSameInstant :
        (/\ Cardinality(Differing(kit[1], kit[2])) = 1
         /\ Differing(kit[1], kit[2]) = {"transaction_amount"}
            => AmountsFormatApart(kit[1].transaction_amount, kit[2].transaction_amount))
        => (p[1].hashed # p[2].hashed /\ p[1].key # p[2].key)

\* keys for 1.004 and 2.000, all else equal
C4_Witness ==
    \E p \in KeyPairsSameInstant :
        /\ Differing(kit[1], kit[2]) = {"transaction_amount"}
        /\ kit[1].transaction_amount = Milli(1004)
        /\ kit[2].transaction_amount = Milli(2000)

---------------------------------------------------------------------------
(* C5: separation of the two halves *)

\* C5: the receiver half of the key depends on the receiver bank code, the
\* receiver account number and the algorithm only; the sender half does not
\* depend on the receiver bank code or account number.
C5_Separation ==
    /\ \A p \in KeyPairs :
          (\A f \in ReceiverFields : kit[1][f] = kit[2][f])
          => p[1].key.receiver_hash = p[2].key.receiver_hash
    /\ \A p \in KeyPairsSameInstant :
          (\A f \in SenderFields : kit[1][f] = kit[2][f])
          => p[1].key.sender_hash = p[2].key.sender_hash

\* same receiver, another amount and another instant
C5_Witness ==
    \E p \in KeyPairs :
        /\ \A f \in ReceiverFields : kit[1][f] = kit[2][f]
        /\ kit[1].transaction_amount # kit[2].transaction_amount
        /\ p[1].transaction_time # p[2].transaction_time

---------------------------------------------------------------------------
(* C8: normalization *)

\* s without its surrounding whitespace
Trimmed(s) ==
    LET solid == {i \in 1..Len(s) : s[i] \notin Whitespace}
    IN  IF solid = {} THEN <<>>
        ELSE SubSeq(s, CHOOSE i \in solid : \A j \in solid : i <= j,
                       CHOOSE i \in solid : \A j \in solid : i >= j)

SameButCase(s1, s2) ==
    /\ Len(s1) = Len(s2)
    /\ \A i \in 1..Len(s1) : UpperChar(s1[i]) = UpperChar(s2[i])

BankCodeFields == {"receiver_bank_code", "sender_bank_code"}
TrimmedFields == {"receiver_account_number", "sender_account_number", "client_location"}
ArgNames == DOMAIN BaseArgs

\* the arguments of the two constructor calls differ in field f only
OnlyArgDiffers(f) == \A g \in ArgNames \ {f} : call[1].args[g] = call[2].args[g]

BothConstructed == call[1] # NoCall /\ call[2] # NoCall

\* C8: bank codes that differ only in case and surrounding whitespace are
\* stored alike and give the same key; account numbers and location are
\* insensitive to surrounding whitespace only, and account numbers that
\* differ in case give different keys.
C8_Normalization ==
    BothConstructed =>
        /\ \A f \in BankCodeFields :
              (/\ OnlyArgDiffers(f)
               /\ SameButCase(Trimmed(call[1].args[f]), Trimmed(call[2].args[f])))
              => /\ kit[1] = kit[2]
                 /\ \A p \in KeyPairsSameInstant : p[1].key = p[2].key
        /\ \A f \in TrimmedFields :
              (OnlyArgDiffers(f) /\ Trimmed(call[1].args[f]) = Trimmed(call[2].args[f]))
              => /\ kit[1] = kit[2]
                 /\ \A p \in KeyPairsSameInstant : p[1].key = p[2].key
        /\ \A f \in {"receiver_account_number", "sender_account_number"} :
              (OnlyArgDiffers(f) /\ Trimmed(call[1].args[f]) # Trimmed(call[2].args[f]))
              => \A p \in KeyPairsSameInstant : p[1].key # p[2].key

\* keys of " a " and of "A" as receiver bank code
C8_Witness ==
    /\ BothConstructed
    /\ OnlyArgDiffers("receiver_bank_code")
    /\ call[1].args.receiver_bank_code = <<" ", "a", " ">>
    /\ call[2].args.receiver_bank_code = <<"A">>
    /\ KeyPairsSameInstant # {}

---------------------------------------------------------------------------
(* C9: the amount *)

\* the hundredths h as a decimal with exactly 2 places
TwoPlaces(h) == Digits(h \div 100) \o <<".">> \o ZeroPad(Digits(h % 100), 2)

\* the sender string of a call of object s, its amount component being amt
SenderStringWith(s, e, amt) ==
    Join(Bar, <<kit[s].sender_bank_code, kit[s].sender_account_number, e.timecode, amt,
                kit[s].internal_transaction_narration, ClientTypeValue(kit[s].client_type),
                kit[s].client_id, kit[s].client_location>>)

\* C9: the amount enters the sender string with exactly 2 decimal places, and
\* two accepted amounts that agree up to and including the hundredths digit
\* give the same amount component and, all else equal, the same key.
C9_AmountCollapse ==
    /\ \A s \in Slots : \A e \in Keys(s) :
          \E h \in 0..1000 : e.hashed[2] = SenderStringWith(s, e, TwoPlaces(h))
    /\ \A p \in KeyPairsSameInstant :
          (/\ Differing(kit[1], kit[2]) \subseteq {"transaction_amount"}
           /\ ~kit[1].transaction_amount.nan /\ ~kit[2].transaction_amount.nan
           /\ kit[1].transaction_amount.milli \div 10 = kit[2].transaction_amount.milli \div 10)
          => (p[1].hashed[2] = p[2].hashed[2] /\ p[1].key = p[2].key)

\* What does hold: the same when both amounts lie less than half a cent above
\* the same hundredth
AmountCollapseBelowHalfCent ==
    \A p \in KeyPairsSameInstant :
        (/\ Differing(kit[1], kit[2]) \subseteq {"transaction_amount"}
         /\ kit[1].transaction_amount.milli \div 10 = kit[2].transaction_amount.milli \div 10
         /\ kit[1].transaction_amount.milli % 10 < 5
         /\ kit[2].transaction_amount.milli % 10 < 5)
        => (p[1].hashed[2] = p[2].hashed[2] /\ p[1].key = p[2].key)

---------------------------------------------------------------------------
(* Concurrent use: callers of the methods of object 1, a step per statement *)

\* one cell for every caller, as an attribute of the object would be
SharedCell(th) == 1
\* where caller th keeps `timecode` (line 152): a local of its own activation
TimecodeCell(th) == th

\* th calls <op>(transaction_time, hash_algorithm) on object 1
Invoke(th, op, transaction_time, hash_algorithm) ==
    /\ Constructed(1)
    /\ frame[th].pc = "idle"
    /\ frame' = [frame EXCEPT ![th].pc = "L121", ![th].op = op,
                               ![th].transaction_time = transaction_time,
                               ![th].hash_algorithm = hash_algorithm]
    /\ UNCHANGED <<strftime_pads_year, kit, call, log>>

\* lines 121-123: read the minute and self.timecode_interval_minutes, round down
StepRound(th) ==
    /\ frame[th].pc = "L121"
    /\ frame' = [frame EXCEPT
                    ![th].rounded_minutes =
                        RoundedMinutes(frame[th].transaction_time[1].minute,
                                       kit[1].timecode_interval_minutes),
                    ![th].pc = "L126"]
    /\ UNCHANGED <<strftime_pads_year, kit, call, log>>

\* lines 126-128: format and return; in generate_idempotency_key, line 152
\* assigns the value to `timecode`
StepFormat(th) ==
    /\ frame[th].pc = "L126"
    /\ LET t == frame[th].transaction_time
           tc == Strftime(TimecodeFormat(frame[th].rounded_minutes), t[1], strftime_pads_year)
       IN  IF frame[th].op = TimecodeOp
           THEN frame' = [frame EXCEPT
                             ![th].result = Some(Result(TimecodeOp, t, "", tc, NoKey,
                                                        NoError, <<>>)),
                             ![th].pc = "done"]
           ELSE frame' = [frame EXCEPT ![TimecodeCell(th)].timecode = tc, ![th].pc = "L155"]
    /\ UNCHANGED <<strftime_pads_year, kit, call, log>>

\* lines 155-170: read the fields of self and `timecode`, join
StepStrings(th) ==
    /\ frame[th].pc = "L155"
    /\ LET tc == frame[TimecodeCell(th)].timecode
       IN  frame' = [frame EXCEPT
                        ![th].receiver_string = ReceiverString(kit[1], tc),
                        ![th].sender_string = SenderString(kit[1], tc),
                        ![th].pc = "L173"]
    /\ UNCHANGED <<strftime_pads_year, kit, call, log>>

\* lines 173-184: hash both strings and return the key, or raise
StepHash(th) ==
    /\ frame[th].pc = "L173"
    /\ frame' = [frame EXCEPT
                    ![th].result =
                        Some(HashAndJoin(KeyOp, frame[th].transaction_time,
                                         frame[th].hash_algorithm,
                                         frame[TimecodeCell(th)].timecode,
                                         frame[th].receiver_string, frame[th].sender_string)),
                    ![th].pc = "done"]
    /\ UNCHANGED <<strftime_pads_year, kit, call, log>>

ConcArgs == {BaseArgs} \cup Variants("timecode_interval_minutes", {7})
ConcInstants == {Some(T1400), Some(T1415)}
ConcAlgorithms == {"sha256", "sha-256"}

NextConc ==
    \/ \E args \in ConcArgs : Construct(1, args)
    \/ \E th \in Threads, t \in ConcInstants : Invoke(th, TimecodeOp, t, "")
    \/ \E th \in Threads, t \in ConcInstants, alg \in ConcAlgorithms : Invoke(th, KeyOp, t, alg)
    \/ \E th \in Threads : StepRound(th)
    \/ \E th \in Threads : StepFormat(th)
    \/ \E th \in Threads : StepStrings(th)
    \/ \E th \in Threads : StepHash(th)

SpecConc == Init /\ [][NextConc]_vars

---------------------------------------------------------------------------
(* C10: concurrent callers *)

\* what the call of th returns when it runs alone
Alone(th) ==
    IF frame[th].op = TimecodeOp
    THEN TimecodeResult(kit[1], frame[th].transaction_time, T1400, strftime_pads_year)
    ELSE KeyResult(kit[1], frame[th].transaction_time, frame[th].hash_algorithm,
                   T1400, strftime_pads_year)

\* C10: under every interleaving of the callers' steps, with no lock, each
\* call returns what it returns when run alone, and the object keeps the
\* fields its constructor gave it.
C10_ConcurrentSafety ==
    /\ \A th \in Threads : frame[th].pc = "done" => frame[th].result = Some(Alone(th))
    /\ Constructed(1) => kit[1] = PaymentIdentikit(call[1].args)

\* caller 1 has returned a key while caller 2 is inside a call for another
\* instant, its timecode computed and its strings not yet built
C10_Witness ==
    /\ frame[1].pc = "done"
    /\ frame[1].op = KeyOp
    /\ frame[1].result[1].raised = NoError
    /\ frame[2].pc = "L155"
    /\ frame[2].transaction_time # frame[1].transaction_time

====
